---- MODULE Spec2Model ----
(***************************************************************************)
(* Exam Variant Builder: the variant-generation pipeline (seeded PRNG,     *)
(* parameter sampling, template rendering, answer evaluation and option    *)
(* matching) and the App component's state with its preview and export.    *)
(*                                                                         *)
(* Spec is the App: its handlers are fired by clicks, each followed by the *)
(* render that React makes of the new state.  Of the controls of an image, *)
(* the width slider stands for the align select and the alt text, which    *)
(* patch another field of the image in the same way.  FnSpec is the        *)
(* helpers called one at a time on inputs of their own.                    *)
(* SwSpec is the service worker that serves the chosen exam JSON: its      *)
(* message and fetch listeners, fired in any order.                        *)
(*                                                                         *)
(* Representation of JavaScript values                                     *)
(*  - a 32-bit word is a pair <<hi, lo>> of 16-bit halves (TLC's integers  *)
(*    are 32-bit signed, so 2^32 - 1 does not fit in one);                 *)
(*  - a JS number is a record [n, d]: the rational n/d in lowest terms     *)
(*    when d > 0, and +Infinity, -Infinity, NaN as 1/0, -1/0, 0/0.  The    *)
(*    model computes with exact rationals where the code computes with     *)
(*    IEEE doubles; the inputs of the model are chosen so that both agree; *)
(*  - a JS string is a sequence of one-character strings.                  *)
(***************************************************************************)
EXTENDS Integers, Sequences, FiniteSets, TLC

VARIABLES
    bank,            \* App: useState(DEMO_BANK)
    editing,         \* App: useState(false)
    imageEditorFor,  \* App: useState(null), a problem id or NoId
    seedIndex,       \* App: useState(0)
    showSolutions,   \* App: useState(false)
    layoutMode,      \* App: useState(false)
    crashed,         \* the React tree was unmounted by an error thrown in render
    preview,         \* what ExamView computed at the last render
    exported,        \* what exportNow computed when it last built a document
    rand,            \* the state `a` in which the last call of a helper left the
                     \* closure of mulberry32 it made
    call,            \* the last call of a helper: its arguments and its outcome
    prevCall,        \* the last call of generateBindings made before it
    script,          \* the file whose service worker runs
    currentExamText,       \* service worker: let currentExamText = null
    currentSolutionsText,  \* service worker: let currentSolutionsText = null
    event,           \* the last event the service worker handled: what it held,
                     \* what was posted to its port, what it was responded with
    lastAcked,       \* history: the text of the latest setExamData message that
                     \* was answered { ok: true }
    onlyExam         \* history: every message so far was a setExamData message

\* the page and its helpers
pageVars == <<bank, editing, imageEditorFor, seedIndex, showSolutions, layoutMode,
              crashed, preview, exported, rand, call, prevCall>>

\* the service worker
swVars == <<script, currentExamText, currentSolutionsText, event, lastAcked, onlyExam>>

vars == <<pageVars, swVars>>

-----------------------------------------------------------------------------
(* 32-bit words                                                            *)

H == 65536

RECURSIVE Pow(_, _)
Pow(b, e) == IF e = 0 THEN 1 ELSE b * Pow(b, e - 1)

RECURSIVE XorBits(_, _, _)
\* the bitwise XOR of two numbers below 2^n, bit by bit
XorBits(x, y, n) ==
    IF n = 0 THEN 0
    ELSE (IF (x % 2) = (y % 2) THEN 0 ELSE 1) + 2 * XorBits(x \div 2, y \div 2, n - 1)

RECURSIVE OrBits(_, _, _)
\* the bitwise OR of two numbers below 2^n, bit by bit
OrBits(x, y, n) ==
    IF n = 0 THEN 0
    ELSE (IF (x % 2) = 1 \/ (y % 2) = 1 THEN 1 ELSE 0) + 2 * OrBits(x \div 2, y \div 2, n - 1)

\* XOR and OR of two hexadecimal digits, tabulated
XorTab == [x \in 0..15 |-> [y \in 0..15 |-> XorBits(x, y, 4)]]
OrTab  == [x \in 0..15 |-> [y \in 0..15 |-> OrBits(x, y, 4)]]

\* the bitwise XOR of two numbers below 2^16
Xor16(x, y) ==
    XorTab[x % 16][y % 16]
      + 16 * XorTab[(x \div 16) % 16][(y \div 16) % 16]
      + 256 * XorTab[(x \div 256) % 16][(y \div 256) % 16]
      + 4096 * XorTab[x \div 4096][y \div 4096]

\* the bitwise OR of two numbers below 2^16
Or16(x, y) ==
    OrTab[x % 16][y % 16]
      + 16 * OrTab[(x \div 16) % 16][(y \div 16) % 16]
      + 256 * OrTab[(x \div 256) % 16][(y \div 256) % 16]
      + 4096 * OrTab[x \div 4096][y \div 4096]

\* x ^ y on 32-bit words
WXor(x, y) == <<Xor16(x[1], y[1]), Xor16(x[2], y[2])>>

\* x | c for a constant c below 2^16
WOrLow(x, c) == <<x[1], Or16(x[2], c)>>

\* the powers of two up to 2^16, tabulated
Pow2 == [e \in 0..16 |-> Pow(2, e)]

\* x >>> s for 0 < s < 16
WShr(x, s) == <<x[1] \div Pow2[s],
                (x[1] % Pow2[s]) * Pow2[16 - s] + (x[2] \div Pow2[s])>>

\* (x + y) mod 2^32
WAdd(x, y) == LET lo == x[2] + y[2]
              IN  <<(x[1] + y[1] + (lo \div H)) % H, lo % H>>

\* the full product of two 16-bit numbers, as a word
Mul16(x, y) ==
    LET a  == x * (y % 256)            \* below 2^24
        b  == x * (y \div 256)         \* below 2^24
        lo == a + (b % 256) * 256      \* below 2^25
    IN  <<(lo \div H) + (b \div 256), lo % H>>

\* Math.imul(x, y): the low 32 bits of the product
WMul(x, y) ==
    LET ll == Mul16(x[2], y[2])
        hl == Mul16(x[1], y[2])
        lh == Mul16(x[2], y[1])
    IN  <<(ll[1] + hl[2] + lh[2]) % H, ll[2]>>

-----------------------------------------------------------------------------
(* mulberry32                                                              *)

\* 0x6d2b79f5
IncHi == 27947
IncLo == 31221

\* ToUint32 of the closure's variable a, which is a JS number that the code never
\* wraps: a is kept as <<a div 2^16, a mod 2^16>>, the first unbounded
ToWord(a) == <<a[1] % H, a[2]>>

\* no generator was made
NoRand == <<>>

\* a generator that goes on from the state the generator before it was left in
StaleGenerator(a) == IF rand = NoRand THEN <<a \div H, a % H>> ELSE rand

\* mulberry32(a): the closure's initial state for an integer seed -2^31 <= a < 2^31
mulberry32(a) == <<a \div H, a % H>>

\* the sum of the low halves does not carry into the high half
AdvanceNoCarry(a) == <<a[1] + IncHi, (a[2] + IncLo) % H>>

\* a += 0x6d2b79f5
Advance(a) == LET lo == a[2] + IncLo
              IN  <<a[1] + IncHi + (lo \div H), lo % H>>

\* the mixing steps on t = a (already advanced); the output word
Mix(a) ==
    LET t0 == ToWord(a)
        t1 == WMul(WXor(t0, WShr(t0, 15)), WOrLow(t0, 1))
        t2 == WXor(t1, WAdd(t1, WMul(WXor(t1, WShr(t1, 7)), WOrLow(t1, 61))))
    IN  WXor(t2, WShr(t2, 14))

\* one call of the closure: the new state and the output word w (the call
\* returns w / 4294967296)
randCall(a) == LET a1 == Advance(a) IN [a |-> a1, w |-> Mix(a1)]

-----------------------------------------------------------------------------
(* JS numbers                                                              *)

Abs(i) == IF i < 0 THEN -i ELSE i

RECURSIVE GCD(_, _)
GCD(x, y) == IF y = 0 THEN x ELSE GCD(y, x % y)

\* the rational n/d (d > 0) in lowest terms
Rat(n, d) == LET g == GCD(Abs(n), d) IN [n |-> n \div g, d |-> d \div g]

Num(i) == [n |-> i, d |-> 1]
NaN    == [n |-> 0, d |-> 0]
PosInf == [n |-> 1, d |-> 0]
NegInf == [n |-> -1, d |-> 0]

\* Number.isFinite
IsFinite(x) == x.d > 0
IsNaN(x)    == x.d = 0 /\ x.n = 0
Sign(i)     == IF i > 0 THEN 1 ELSE IF i < 0 THEN -1 ELSE 0

\* x * y (IEEE: Infinity * 0 is NaN)
JMul(x, y) ==
    IF IsFinite(x) /\ IsFinite(y) THEN Rat(x.n * y.n, x.d * y.d)
    ELSE IF IsNaN(x) \/ IsNaN(y) \/ x.n = 0 \/ y.n = 0 THEN NaN
    ELSE [n |-> Sign(x.n) * Sign(y.n), d |-> 0]

\* x / y (IEEE: x / 0 is +-Infinity, 0 / 0 and Infinity / Infinity are NaN; the
\* sign of a zero divisor is taken as positive: the model has no -0)
JDiv(x, y) ==
    IF IsNaN(x) \/ IsNaN(y) THEN NaN
    ELSE IF IsFinite(x) /\ IsFinite(y)
         THEN IF y.n = 0 THEN [n |-> Sign(x.n), d |-> 0]
              ELSE Rat(Sign(y.n) * x.n * y.d, x.d * Abs(y.n))
    ELSE IF IsFinite(x) THEN Num(0)
    ELSE IF IsFinite(y) THEN [n |-> x.n * (IF y.n < 0 THEN -1 ELSE 1), d |-> 0]
    ELSE NaN

\* x + y
JAdd(x, y) ==
    IF IsFinite(x) /\ IsFinite(y) THEN Rat(x.n * y.d + y.n * x.d, x.d * y.d)
    ELSE IF IsNaN(x) \/ IsNaN(y) THEN NaN
    ELSE IF IsFinite(x) THEN y
    ELSE IF IsFinite(y) THEN x
    ELSE IF x.n = y.n THEN x ELSE NaN

\* x - y
JSub(x, y) == JAdd(x, [n |-> -y.n, d |-> y.d])

\* Math.floor of the rational n/d, d > 0
FloorDiv(n, d) == IF n >= 0 THEN n \div d ELSE -((-n + d - 1) \div d)

-----------------------------------------------------------------------------
(* pickParam                                                               *)

\* Math.floor(r * n) for the draw r = w / 2^32 and an integer n, |n| < 2^14; the
\* double product is exact, so this is the floor of the exact product
FloorDraw(w, n) ==
    LET m  == Abs(n)
        l  == w[2] * m
        x  == w[1] * m + (l \div H)         \* (w * m) div 2^16
        q  == x \div H                      \* (w * m) div 2^32
        ex == (x % H = 0) /\ (l % H = 0)    \* 2^32 divides w * m
    IN  IF n >= 0 THEN q ELSE IF ex THEN -q ELSE -(q + 1)

\* one step more than the range holds
NStepsOver(min, max, step) == FloorDiv(Sign(step) * (max - min), Abs(step)) + 2

\* nSteps = Math.floor((max - min) / step) + 1, for step # 0
NSteps(min, max, step) == FloorDiv(Sign(step) * (max - min), Abs(step)) + 1

\* min + Math.floor(r * nSteps) * step for the draw r = w / 2^32 and integers
\* min, max, step; with step = 0 the quotient (max - min) / 0 is not finite and
\* min + k * 0 is NaN
PickValue(w, min, max, step) ==
    IF step = 0 THEN NaN ELSE Num(min + FloorDraw(w, NSteps(min, max, step)) * step)

\* a pickParam that calls rand() a second time and drops what it gives
PickTwice(c, min, max, step) ==
    [a |-> IF c.a = NoRand THEN c.a ELSE Advance(c.a), v |-> PickValue(c.w, min, max, step)]

\* pickParam(rand, min, max, step), with c the one call rand() it makes: the
\* value returned and the closure's state afterwards
PickWith(c, min, max, step) == [a |-> c.a, v |-> PickValue(c.w, min, max, step)]

\* pickParam(rand, min, max, step) with rand the closure in state a
pickParam(a, min, max, step) == PickWith(randCall(a), min, max, step)

\* the default parameter step = 1
StepOf(p) == IF "step" \in DOMAIN p THEN p.step ELSE 1

-----------------------------------------------------------------------------
(* generateBindings                                                        *)

\* out[name] = value on an object held as a function from names to values
Put(out, name, value) ==
    [k \in DOMAIN out \cup {name} |-> IF k = name THEN value ELSE out[k]]

\* the empty object {}
EmptyObj == [k \in {} |-> NaN]

RECURSIVE BindLoop(_, _, _, _)
RECURSIVE BindNext(_, _, _, _)
\* out[p.name] = r for the value and closure state r that pickParam returned for
\* params[i], and on to the next parameter
BindNext(params, i, r, out) ==
    BindLoop(params, i + 1, r.a, Put(out, params[i].name, r.v))

\* the loop over problem.params from index i on
BindLoop(params, i, a, out) ==
    IF i > Len(params) THEN [a |-> a, out |-> out]
    ELSE BindNext(params, i,
                  pickParam(a, params[i].min, params[i].max, StepOf(params[i])), out)

\* generateBindings(problem, seed): the bindings, and the state in which the
\* call leaves its closure
generateBindings(problem, seed) ==
    BindLoop(problem.params, 1, mulberry32(seed), EmptyObj)

\* Math.floor(rng() * 1e9) for the output word w: 1e9 = 2^9 * 1953125 and
\* w * 1953125 < 2^53, so the double product is exact and this is
\* (w * 1953125) div 2^23, computed on 11-bit limbs
SubSeed(w) ==
    LET w0 == w[2] % 2048
        w1 == (w[1] % 64) * 32 + (w[2] \div 2048)
        w2 == w[1] \div 64
        m0 == 1381
        m1 == 953
        c0 == w0 * m0
        e1 == w0 * m1 + w1 * m0 + (c0 \div 2048)
        e2 == w1 * m1 + w2 * m0 + (e1 \div 2048)
        e3 == w2 * m1 + (e2 \div 2048)
    IN  e3 * 1024 + ((e2 % 2048) \div 2)

-----------------------------------------------------------------------------
(* strings                                                                 *)

Digits == <<"0", "1", "2", "3", "4", "5", "6", "7", "8", "9">>

\* the value of each digit
DigitVal == [c \in {Digits[i] : i \in 1..10} |-> (CHOOSE i \in 1..10 : Digits[i] = c) - 1]

\* \d of the regular expressions
IsDigit(c) == c \in DOMAIN DigitVal

Spaces == {" ", "\t", "\n"}

\* \s of the regular expressions and of trim()
IsSpace(c) == c \in Spaces

RECURSIVE DigitsEnd(_, _)
\* the last index of the run of digits that starts at i (i - 1 when s[i] is none)
DigitsEnd(s, i) ==
    IF i <= Len(s) /\ IsDigit(s[i]) THEN DigitsEnd(s, i + 1) ELSE i - 1

RECURSIVE DecVal(_, _, _)
\* the number written by the digits s[i..j]
DecVal(s, i, j) ==
    IF j < i THEN 0 ELSE 10 * DecVal(s, i, j - 1) + DigitVal[s[j]]

RECURSIVE NatStr(_)
\* the decimal digits of a natural number
NatStr(i) == IF i < 10 THEN <<Digits[i + 1]>>
             ELSE NatStr(i \div 10) \o <<Digits[(i % 10) + 1]>>

RECURSIVE FracStr(_, _, _)
\* the digits of r/d (0 <= r < d) after the decimal point; a fraction that does
\* not end within k digits is cut there and closed by "~", which stands for the
\* digits that follow in the double's shortest decimal form
FracStr(r, d, k) ==
    IF r = 0 THEN <<>>
    ELSE IF k = 0 THEN <<"~">>
    ELSE <<Digits[((10 * r) \div d) + 1]>> \o FracStr((10 * r) % d, d, k - 1)

\* String(x) of a JS number
NumStr(x) ==
    IF IsNaN(x) THEN <<"N", "a", "N">>
    ELSE IF ~IsFinite(x)
         THEN (IF x.n < 0 THEN <<"-">> ELSE <<>>) \o <<"I", "n", "f", "i", "n", "i", "t", "y">>
    ELSE LET m == Abs(x.n)
             f == FracStr(m % x.d, x.d, 3)
         IN  (IF x.n < 0 THEN <<"-">> ELSE <<>>) \o NatStr(m \div x.d)
               \o (IF f = <<>> THEN <<>> ELSE <<".">> \o f)

RECURSIVE TrimLeft(_)
TrimLeft(s) == IF s # <<>> /\ IsSpace(s[1]) THEN TrimLeft(Tail(s)) ELSE s

RECURSIVE TrimRight(_)
TrimRight(s) == IF s # <<>> /\ IsSpace(s[Len(s)])
                THEN TrimRight(SubSeq(s, 1, Len(s) - 1)) ELSE s

\* s.trim()
Trim(s) == TrimRight(TrimLeft(s))

-----------------------------------------------------------------------------
(* roundTo and numericFromOption                                           *)

\* Math.round: the nearest integer, halves towards +Infinity
MathRound(x) == IF IsFinite(x) THEN Num(FloorDiv(2 * x.n + x.d, 2 * x.d)) ELSE x

\* roundTo(x, d) for an integer d >= 0
roundTo(x, d) == LET p == Num(Pow(10, d)) IN JDiv(MathRound(JMul(x, p)), p)

\* /-?\d+(?:\.\d+)?/ can match at i
TokenAt(s, i) ==
    \/ IsDigit(s[i])
    \/ s[i] = "-" /\ i < Len(s) /\ IsDigit(s[i + 1])

\* the index at which the match that starts at i ends
TokenEnd(s, i) ==
    LET e == DigitsEnd(s, IF s[i] = "-" THEN i + 1 ELSE i)
    IN  IF e + 2 <= Len(s) /\ s[e + 1] = "." /\ IsDigit(s[e + 2])
        THEN DigitsEnd(s, e + 2) ELSE e

\* parseFloat of the match that starts at i
TokenVal(s, i) ==
    LET neg == s[i] = "-"
        b   == IF neg THEN i + 1 ELSE i
        e   == DigitsEnd(s, b)
        fe  == TokenEnd(s, i)
        ip  == DecVal(s, b, e)
        v   == IF fe = e THEN Num(ip)
               ELSE JAdd(Num(ip), Rat(DecVal(s, e + 2, fe), Pow(10, fe - e - 1)))
    IN  IF neg THEN JSub(Num(0), v) ELSE v

RECURSIVE FirstToken(_, _)
\* the first index from i on at which the regular expression matches, 0 when
\* there is none
FirstToken(s, i) ==
    IF i > Len(s) THEN 0 ELSE IF TokenAt(s, i) THEN i ELSE FirstToken(s, i + 1)

\* parseFloat(m[0]) for the match m found at k, NaN without a match
MatchVal(opt, k) == IF k = 0 THEN NaN ELSE TokenVal(opt, k)

\* numericFromOption(opt): parseFloat of the first match, NaN without one
numericFromOption(opt) == MatchVal(opt, FirstToken(opt, 1))

-----------------------------------------------------------------------------
(* the answer expression                                                   *)
(*                                                                         *)
(* problem.answerExpr is JavaScript source; the model holds its syntax     *)
(* tree: [k |-> "var", name], [k |-> "num", val], [k |-> "str", s],        *)
(* [k |-> "mul" or "div", l, r], and [k |-> "syntax"] for a text that is   *)
(* no expression.  An outcome is [tag |-> "num", v], [tag |-> "str", s] or *)
(* [tag |-> "throw", err].                                                 *)

\* Number(x) of a string: 0 when blank, the value of a decimal literal, else NaN
StrToNumber(s) ==
    LET t == Trim(s)
    IN  IF t = <<>> THEN Num(0)
        ELSE IF TokenAt(t, 1) /\ TokenEnd(t, 1) = Len(t) THEN TokenVal(t, 1)
        ELSE NaN

\* Number(answer)
ToNumber(o) == IF o.tag = "num" THEN o.v ELSE StrToNumber(o.s)

\* String(answer)
ToStr(o) == IF o.tag = "num" THEN NumStr(o.v) ELSE o.s

\* x op y on two values
Arith(k, x, y) ==
    [tag |-> "num",
     v |-> IF k = "mul" THEN JMul(ToNumber(x), ToNumber(y)) ELSE JDiv(ToNumber(x), ToNumber(y))]

\* the right operand y evaluated after the left operand x
EvalRight(k, x, y) == IF y.tag = "throw" THEN y ELSE Arith(k, x, y)

RECURSIVE Eval(_, _)
\* a binary expression whose left operand evaluated to x
EvalLeft(e, x, scope) ==
    IF x.tag = "throw" THEN x ELSE EvalRight(e.k, x, Eval(e.r, scope))

\* the value of the expression e in the scope { ...bindings, Math }
Eval(e, scope) ==
    CASE e.k = "num" -> [tag |-> "num", v |-> e.val]
      [] e.k = "str" -> [tag |-> "str", s |-> e.s]
      [] e.k = "var" -> IF e.name \in DOMAIN scope
                        THEN [tag |-> "num", v |-> scope[e.name]]
                        ELSE [tag |-> "throw", err |-> "ReferenceError"]
      [] e.k \in {"mul", "div"} -> EvalLeft(e, Eval(e.l, scope), scope)

\* Function(...Object.keys(scope), `return (${answerExpr});`)(...Object.values(scope))
EvalAnswer(answerExpr, bindings) ==
    IF answerExpr.k = "syntax" THEN [tag |-> "throw", err |-> "SyntaxError"]
    ELSE Eval(answerExpr, bindings)

-----------------------------------------------------------------------------
(* chooseCorrectIndex                                                      *)

\* the value undefined
Undefined == [undef |-> TRUE]

\* problem.selectRule?.match === "numeric"
IsNumericMode(problem) ==
    "selectRule" \in DOMAIN problem /\ problem.selectRule.match = "numeric"

\* problem.selectRule.rounding ?? 2
RoundingOf(problem) ==
    IF "rounding" \in DOMAIN problem.selectRule THEN problem.selectRule.rounding ELSE 2

RECURSIVE NumericScan(_, _, _, _)
\* one turn of the loop, v = numericFromOption(options[i])
NumericTest(options, i, r, target, v) ==
    IF ~IsFinite(v) THEN NumericScan(options, i + 1, r, target)
    \* === : NaN equals nothing, itself included
    ELSE IF roundTo(v, r) = target /\ ~IsNaN(target) THEN i - 1
    ELSE NumericScan(options, i + 1, r, target)

RECURSIVE LastMatch(_, _, _, _)
\* the last option up to index i that matches
LastMatch(options, i, r, target) ==
    IF i < 1 THEN -1
    ELSE IF /\ IsFinite(numericFromOption(options[i]))
            /\ roundTo(numericFromOption(options[i]), r) = target
         THEN i - 1
    ELSE LastMatch(options, i - 1, r, target)

\* a scan in which the last matching option wins
NumericScanLast(options, i, r, target) == LastMatch(options, Len(options), r, target)

\* the for loop over the options from index i (1-based) on: bestIdx, 0-based
NumericScan(options, i, r, target) ==
    IF i > Len(options) THEN -1
    ELSE NumericTest(options, i, r, target, numericFromOption(options[i]))

RECURSIVE StringScanRaw(_, _, _)
\* a findIndex that compares the texts as they are, untrimmed
StringScanRaw(options, i, answer) ==
    IF i > Len(options) THEN -1
    ELSE IF options[i] = ToStr(answer) THEN i - 1
    ELSE StringScanRaw(options, i + 1, answer)

RECURSIVE StringScan(_, _, _)
\* options.findIndex((o) => String(o).trim() === String(answer).trim()), from
\* index i (1-based) on
StringScan(options, i, answer) ==
    IF i > Len(options) THEN -1
    ELSE IF Trim(options[i]) = Trim(ToStr(answer)) THEN i - 1
    ELSE StringScan(options, i + 1, answer)

\* a numeric branch that throws when no option matches
NumericResultThrows(problem, r, target) ==
    IF NumericScan(problem.options, 1, r, target) = -1
    THEN [tag |-> "throw", err |-> "NoMatchFound"]
    ELSE [tag |-> "return", index |-> NumericScan(problem.options, 1, r, target),
          numericAnswer |-> target]

\* the numeric branch, target = roundTo(Number(answer), r)
NumericResult(problem, r, target) ==
    [tag |-> "return", index |-> NumericScan(problem.options, 1, r, target),
     numericAnswer |-> target]

\* chooseCorrectIndex behind the evaluation of the answer
ChooseFor(problem, answer) ==
    IF answer.tag = "throw" THEN answer
    ELSE IF IsNumericMode(problem)
    THEN NumericResult(problem, RoundingOf(problem),
                       roundTo(ToNumber(answer), RoundingOf(problem)))
    ELSE [tag |-> "return", index |-> StringScan(problem.options, 1, answer),
          numericAnswer |-> Undefined]

\* chooseCorrectIndex(problem, bindings): [tag |-> "return", index, numericAnswer]
\* or, when the evaluation of the answer throws, [tag |-> "throw", err]
chooseCorrectIndex(problem, bindings) ==
    ChooseFor(problem, EvalAnswer(problem.answerExpr, bindings))

-----------------------------------------------------------------------------
(* renderTemplate                                                          *)

\* \w of the regular expression
WordChars ==
    {"0", "1", "2", "3", "4", "5", "6", "7", "8", "9",
     "_", "a", "b", "c", "d", "e", "f", "g", "h", "i", "j", "k", "l", "m",
     "n", "o", "p", "q", "r", "s", "t", "u", "v", "w", "x", "y", "z",
     "A", "B", "C", "D", "E", "F", "G", "H", "I", "J", "K", "L", "M",
     "N", "O", "P", "Q", "R", "S", "T", "U", "V", "W", "X", "Y", "Z"}

IsWord(c) == c \in WordChars

RECURSIVE SkipSpace(_, _)
\* the first index from i on that holds no white space
SkipSpace(s, i) == IF i <= Len(s) /\ IsSpace(s[i]) THEN SkipSpace(s, i + 1) ELSE i

RECURSIVE WordEnd(_, _)
\* the last index of the run of word characters that starts at i
WordEnd(s, i) == IF i <= Len(s) /\ IsWord(s[i]) THEN WordEnd(s, i + 1) ELSE i - 1

\* the match of /\{\{\s*(\w+)\s*\}\}/ at i: [end, name], end = 0 without a match
PlaceholderAt(s, i) ==
    LET b == SkipSpace(s, i + 2)
        e == WordEnd(s, b)
        c == SkipSpace(s, e + 1)
    IN  IF /\ i + 1 <= Len(s) /\ s[i] = "{" /\ s[i + 1] = "{"
           /\ e >= b
           /\ c + 1 <= Len(s) /\ s[c] = "}" /\ s[c + 1] = "}"
        THEN [end |-> c + 1, name |-> SubSeq(s, b, e)]
        ELSE [end |-> 0, name |-> <<>>]

\* the members every object inherits from Object.prototype, which bindings[name]
\* finds when name is not a key of bindings
ObjectPrototype ==
    {<<"c", "o", "n", "s", "t", "r", "u", "c", "t", "o", "r">>,
     <<"t", "o", "S", "t", "r", "i", "n", "g">>,
     <<"v", "a", "l", "u", "e", "O", "f">>}

\* String(bindings[name] ?? ""); the source text of an inherited function is
\* held as "function " followed by its name
Lookup(bindings, name) ==
    IF name \in DOMAIN bindings THEN NumStr(bindings[name])
    ELSE IF name \in ObjectPrototype
         THEN <<"f", "u", "n", "c", "t", "i", "o", "n", " ">> \o name
    ELSE <<>>

\* the least element of a nonempty set of numbers
Least(S) == CHOOSE j \in S : \A k \in S : j <= k

\* the indexes from i on at which there is a match
MatchesFrom(s, i) == {j \in i..Len(s) : s[j] = "{" /\ PlaceholderAt(s, j).end > 0}

RECURSIVE RenderFrom(_, _, _)
\* the match m is replaced, and the search goes on behind it
RenderMatch(stem, m, bindings) ==
    Lookup(bindings, m.name) \o RenderFrom(stem, m.end + 1, bindings)

\* the text from i up to the first match, found at j, is copied
RenderUpTo(stem, i, j, bindings) ==
    SubSeq(stem, i, j - 1) \o RenderMatch(stem, PlaceholderAt(stem, j), bindings)

\* the text behind the last match is dropped
RenderNextCut(stem, i, M, bindings) ==
    IF M = {} THEN <<>>
    ELSE RenderUpTo(stem, i, Least(M), bindings)

\* the text from i on, M the indexes at which there is a match
RenderNext(stem, i, M, bindings) ==
    IF M = {} THEN SubSeq(stem, i, Len(stem))
    ELSE RenderUpTo(stem, i, Least(M), bindings)

\* replace with the g flag, from index i on
RenderFrom(stem, i, bindings) == RenderNext(stem, i, MatchesFrom(stem, i), bindings)

\* renderTemplate(stem, bindings)
renderTemplate(stem, bindings) == RenderFrom(stem, 1, bindings)

-----------------------------------------------------------------------------
(* the problem bank                                                        *)

\* an identifier in an expression
Var(name) == [k |-> "var", name |-> name]

\* a numeric literal
Lit(n, d) == [k |-> "num", val |-> Rat(n, d)]

OhmStem ==
    <<"A", " ", "c", "o", "p", "p", "e", "r", " ", "w", "i", "r", "e", " ",
    "h", "a", "s", " ", "r", "e", "s", "i", "s", "t", "a", "n", "c", "e",
    " ", "R", " ", "=", " ", "{", "{", "R", "}", "}", " ", "Ω", ".", " ",
    "A", " ", "b", "a", "t", "t", "e", "r", "y", " ", "o", "f", " ", "V",
    " ", "=", " ", "{", "{", "V", "}", "}", " ", "V", " ", "i", "s", " ",
    "a", "p", "p", "l", "i", "e", "d", ".", " ", "T", "h", "e", " ", "s",
    "t", "e", "a", "d", "y", " ", "c", "u", "r", "r", "e", "n", "t", " ",
    "i", "s", " ", "c", "l", "o", "s", "e", "s", "t", " ", "t", "o", ":">>

CapStem ==
    <<"A", "n", " ", "R", "C", " ", "c", "i", "r", "c", "u", "i", "t", " ",
    "h", "a", "s", " ", "R", " ", "=", " ", "{", "{", "R", "}", "}", " ",
    "k", "Ω", " ", "a", "n", "d", " ", "C", " ", "=", " ", "{", "{", "C",
    "}", "}", " ", "μ", "F", ".", " ", "T", "h", "e", " ", "t", "i", "m",
    "e", " ", "c", "o", "n", "s", "t", "a", "n", "t", " ", "τ", " ", "i",
    "s", ":">>

\* DEMO_BANK[0]
Ohm1 ==
    [id |-> "ohm1",
     stem |-> OhmStem,
     params |-> <<[name |-> <<"R">>, min |-> 4, max |-> 12, step |-> 1],
                  [name |-> <<"V">>, min |-> 6, max |-> 24, step |-> 2]>>,
     options |-> <<<<"0", ".", "2", " ", "A">>, <<"0", ".", "4", " ", "A">>,
                 <<"0", ".", "5", " ", "A">>, <<"1", ".", "0", " ", "A">>,
                 <<"2", ".", "0", " ", "A">>>>,
     \* "V / R"
     answerExpr |-> [k |-> "div", l |-> Var(<<"V">>), r |-> Var(<<"R">>)],
     selectRule |-> [match |-> "numeric", rounding |-> 1],
     images |-> <<>>]

\* DEMO_BANK[1]
CapRC1 ==
    [id |-> "capRC1",
     stem |-> CapStem,
     params |-> <<[name |-> <<"R">>, min |-> 5, max |-> 25, step |-> 5],
                  [name |-> <<"C">>, min |-> 2, max |-> 12, step |-> 2]>>,
     options |-> <<<<"1", "0", " ", "m", "s">>, <<"5", "0", " ", "m", "s">>,
                 <<"1", "0", "0", " ", "m", "s">>, <<"1", "2", "0", " ", "m",
                 "s">>, <<"2", "5", "0", " ", "m", "s">>>>,
     \* "(R*1e3) * (C*1e-6)"
     answerExpr |-> [k |-> "mul",
                     l |-> [k |-> "mul", l |-> Var(<<"R">>), r |-> Lit(1000, 1)],
                     r |-> [k |-> "mul", l |-> Var(<<"C">>), r |-> Lit(1, 1000000)]],
     selectRule |-> [match |-> "numeric", rounding |-> 2],
     images |-> <<>>]

DEMO_BANK == <<Ohm1, CapRC1>>


\* a problem whose answer expression "V / X" names no declared parameter
RefErr1 ==
    [id |-> "bad1",
     stem |-> <<"I", "=", "{", "{", "V", "}", "}">>,
     params |-> <<[name |-> <<"V">>, min |-> 1, max |-> 2, step |-> 1]>>,
     options |-> <<<<"1", " ", "A">>, <<"2", " ", "A">>>>,
     answerExpr |-> [k |-> "div", l |-> Var(<<"V">>), r |-> Var(<<"X">>)],
     selectRule |-> [match |-> "numeric", rounding |-> 1],
     images |-> <<>>]

\* a problem whose answer expression "V /" is no expression
SynErr1 ==
    [id |-> "bad2",
     stem |-> <<"I", "=", "{", "{", "V", "}", "}">>,
     params |-> <<[name |-> <<"V">>, min |-> 1, max |-> 2, step |-> 1]>>,
     options |-> <<<<"1", " ", "A">>, <<"2", " ", "A">>>>,
     answerExpr |-> [k |-> "syntax"],
     selectRule |-> [match |-> "numeric", rounding |-> 1],
     images |-> <<>>]

\* a problem without selectRule (string matching), answer expression "n",
\* step left to its default
Sel1 ==
    [id |-> "sel1",
     stem |-> <<"n", " ", "=", " ", "{", "{", " ", "n", " ", "}", "}", "?">>,
     params |-> <<[name |-> <<"n">>, min |-> 1, max |-> 3]>>,
     options |-> <<<<" ", "1">>, <<"2", " ">>, <<"3">>>>,
     answerExpr |-> Var(<<"n">>),
     images |-> <<>>]

\* a problem whose answer "V / R" divides by a parameter bound to 0, its
\* selectRule without rounding
DivZero1 ==
    [id |-> "dz1",
     stem |-> <<"{", "{", "V", "}", "}", "/", "{", "{", "R", "}", "}">>,
     params |-> <<[name |-> <<"R">>, min |-> 0, max |-> 0, step |-> 1],
                  [name |-> <<"V">>, min |-> 1, max |-> 2, step |-> 1]>>,
     options |-> <<<<"0", ".", "3">>, <<"0", ".", "2", "5">>>>,
     answerExpr |-> [k |-> "div", l |-> Var(<<"V">>), r |-> Var(<<"R">>)],
     selectRule |-> [match |-> "numeric"],
     images |-> <<>>]

\* a problem whose options are neither sorted nor all numeric, two of them equal
\* to 0.5 at one decimal
Dup1 ==
    [id |-> "dup1",
     stem |-> <<"{", "{", "V", "}", "}", "/", "{", "{", "R", "}", "}">>,
     params |-> <<[name |-> <<"R">>, min |-> 2, max |-> 4, step |-> 2],
                  [name |-> <<"V">>, min |-> 1, max |-> 2, step |-> 1]>>,
     options |-> <<<<"n", "o", "n", "e">>, <<"2", ".", "0">>,
                   <<"a", "b", "o", "u", "t", " ", "0", ".", "5", "2", " ", "A">>,
                   <<"0", ".", "5", " ", "A">>, <<"0", ".", "2">>>>,
     answerExpr |-> [k |-> "div", l |-> Var(<<"V">>), r |-> Var(<<"R">>)],
     selectRule |-> [match |-> "numeric", rounding |-> 1],
     images |-> <<>>]

\* a problem matched as text: selectRule.match is not "numeric"
Str1 ==
    [id |-> "str1",
     stem |-> <<"{", "{", "V", "}", "}", "/", "{", "{", "R", "}", "}">>,
     params |-> <<[name |-> <<"R">>, min |-> 2, max |-> 3, step |-> 1],
                  [name |-> <<"V">>, min |-> 1, max |-> 4, step |-> 3]>>,
     options |-> <<<<"0", ".", "5">>, <<" ", "2", " ">>, <<"2">>, <<"2", ".", "0">>>>,
     answerExpr |-> [k |-> "div", l |-> Var(<<"V">>), r |-> Var(<<"R">>)],
     selectRule |-> [match |-> "exact"],
     images |-> <<>>]

\* two problems that declare the same two parameters in opposite orders
SwapAB ==
    [id |-> "swapAB",
     stem |-> <<"{", "{", "a", "}", "}", "{", "{", "b", "}", "}">>,
     params |-> <<[name |-> <<"a">>, min |-> 1, max |-> 3, step |-> 1],
                  [name |-> <<"b">>, min |-> 10, max |-> 30, step |-> 10]>>,
     options |-> <<<<"1">>, <<"2">>>>,
     answerExpr |-> Var(<<"a">>),
     images |-> <<>>]

SwapBA == [SwapAB EXCEPT !.id = "swapBA", !.params = <<SwapAB.params[2], SwapAB.params[1]>>]

\* the arrays of problems typed into the JSON editor
Banks == {DEMO_BANK, <<Ohm1, RefErr1>>, <<SynErr1, Ohm1>>, <<Sel1>>}


-----------------------------------------------------------------------------
(* ExamView and exportNow                                                  *)

\* the indexes i of the options marked correct: showSolutions && i === index
Marked(problem, index, show) ==
    {i \in 0..(Len(problem.options) - 1) : show /\ i = index}

RECURSIVE ExamLoop(_, _, _, _, _)
\* the element of `rendered` for problem p with bindings b and result r of
\* chooseCorrectIndex, with what the JSX shows of it
ExamItem(p, b, r, show) ==
    [id |-> p.id, b |-> b, index |-> r.index, numericAnswer |-> r.numericAnswer,
     stem |-> renderTemplate(p.stem, b), marked |-> Marked(p, r.index, show)]

\* the thrown error ends the map
ExamChosen(bk, i, a, b, r, show, acc) ==
    IF r.tag = "throw" THEN [tag |-> "throw", err |-> r.err]
    ELSE ExamLoop(bk, i + 1, a, show, Append(acc, ExamItem(bk[i], b, r, show)))

\* const { index, numericAnswer } = chooseCorrectIndex(p, b)
ExamBound(bk, i, a, b, show, acc) ==
    ExamChosen(bk, i, a, b, chooseCorrectIndex(bk[i], b), show, acc)

\* const b = generateBindings(p, Math.floor(rng() * 1e9)), c the call rng()
ExamDraw(bk, i, c, show, acc) ==
    ExamBound(bk, i, c.a, generateBindings(bk[i], SubSeed(c.w)).out, show, acc)

\* bank.map in ExamView from problem i on, rng in state a
ExamLoop(bk, i, a, show, acc) ==
    IF i > Len(bk) THEN [tag |-> "ok", items |-> acc]
    ELSE ExamDraw(bk, i, randCall(a), show, acc)

\* a preview whose variant seed depends on showSolutions
ExamViewKeyed(bk, si, show) ==
    ExamLoop(bk, 1, mulberry32(12345 + si + (IF show THEN 1 ELSE 0)), show, <<>>)

\* ExamView({ bank, seedIndex, showSolutions }): what it computes and shows
ExamView(bk, si, show) == ExamLoop(bk, 1, mulberry32(12345 + si), show, <<>>)

RECURSIVE ExportLoop(_, _, _, _, _)
\* the question built for problem p with bindings b and result r
ExportItem(p, b, r, show) ==
    [id |-> p.id, b |-> b, index |-> r.index,
     stem |-> renderTemplate(p.stem, b), marked |-> Marked(p, r.index, show)]

\* the thrown error ends the map
ExportChosen(bk, i, a, b, r, show, acc) ==
    IF r.tag = "throw" THEN [tag |-> "throw", err |-> r.err]
    ELSE ExportLoop(bk, i + 1, a, show, Append(acc, ExportItem(bk[i], b, r, show)))

\* const { index } = chooseCorrectIndex(p, b)
ExportBound(bk, i, a, b, show, acc) ==
    ExportChosen(bk, i, a, b, chooseCorrectIndex(bk[i], b), show, acc)

\* const b = generateBindings(p, Math.floor(rng() * 1e9)), c the call rng()
ExportDraw(bk, i, c, show, acc) ==
    ExportBound(bk, i, c.a, generateBindings(bk[i], SubSeed(c.w)).out, show, acc)

\* bank.map in exportNow from problem i on, rng in state a
ExportLoop(bk, i, a, show, acc) ==
    IF i > Len(bk) THEN [tag |-> "ok", items |-> acc]
    ELSE ExportDraw(bk, i, randCall(a), show, acc)

\* the items of the document exportNow builds
exportNow(bk, si, show) == ExportLoop(bk, 1, mulberry32(12345 + si), show, <<>>)

\* the Problem Bank panel of App: a card per problem, bindings from seed idx + 999
\* (idx 0-based); whether building it throws
BankPanelThrows(bk) ==
    \E i \in 1..Len(bk) :
        chooseCorrectIndex(bk[i], generateBindings(bk[i], (i - 1) + 999).out).tag = "throw"

\* useState(null)
NoId == "null"

\* ImageEditor reads problem.id of bank.find(p => p.id === imageEditorFor), which
\* is undefined when no problem has that id
ImageEditorThrows(bk, ie) == ie # NoId /\ \A i \in 1..Len(bk) : bk[i].id # ie

\* whether rendering App throws, which unmounts the whole tree; view is what
\* ExamView computes in this render
RenderThrows(bk, view, ie) ==
    \/ BankPanelThrows(bk)
    \/ view.tag = "throw"
    \/ ImageEditorThrows(bk, ie)

\* the problems without their images
Core(bk) == [i \in 1..Len(bk) |-> [f \in DOMAIN bk[i] \ {"images"} |-> bk[i][f]]]

NoExport == [tag |-> "none"]

-----------------------------------------------------------------------------
(* The service worker: src/sw.js, and the one at the end of the .jsx file, *)
(* which also keeps a solutions text.  Its install and activate handlers   *)
(* and the message 'claim' change nothing of its state.                    *)

SwJs == "sw.js"
Jsx  == "exam_variant_builder_react_prototype.jsx"
Scripts == {SwJs, Jsx}

\* JS values that a message holds as its text: a value is its type and the
\* string that String(value) gives
JsNull      == [type |-> "null", chars |-> <<"n", "u", "l", "l">>]
JsUndefined == [type |-> "undefined",
                chars |-> <<"u", "n", "d", "e", "f", "i", "n", "e", "d">>]
Str(chars)  == [type |-> "string", chars |-> chars]

\* the texts of the messages: two JSON texts, one cut short, the empty string,
\* and a message whose text is null or missing
Texts == {Str(<<"[", "1", "]">>), Str(<<"[", "2", "]">>), Str(<<"[", "1">>), Str(<<>>),
          JsNull, JsUndefined}

\* JSON.parse(text) returns (it throws a SyntaxError otherwise); JSON.parse reads
\* String(text), and of the texts above the JSON texts are null and an array of
\* one digit
JSONParses(text) ==
    LET s == text.chars
    IN  \/ s = <<"n", "u", "l", "l">>
        \/ Len(s) = 3 /\ s[1] = "[" /\ IsDigit(s[2]) /\ s[3] = "]"

\* if (currentExamText): null, undefined and the empty string are falsy
Truthy(text) == text.type = "string" /\ text.chars # <<>>

\* event.data of a message event
Messages ==
    {[type |-> ty, text |-> tx, target |-> "none", port |-> po] :
        ty \in {"setExamData", "setSolutionsData"}, tx \in Texts, po \in BOOLEAN}
      \cup {[type |-> "setData", text |-> tx, target |-> ta, port |-> TRUE] :
              tx \in Texts, ta \in {"exam", "solutions", "none"}}
      \cup {[type |-> "claim", text |-> JsUndefined, target |-> "none", port |-> FALSE]}

NoData == [type |-> "none", text |-> JsUndefined, target |-> "none", port |-> FALSE]

\* url.pathname of a fetch event
ExamSuffix == <<"/", "e", "x", "a", "m", "_", "d", "a", "t", "a", ".", "j", "s", "o", "n">>
SolutionsSuffix == <<"/", "s", "o", "l", "u", "t", "i", "o", "n", "s", "_", "d", "a", "t", "a", ".", "j", "s", "o", "n">>
Paths == {ExamSuffix, <<"/", "a">> \o ExamSuffix, <<"/", "x">> \o Tail(ExamSuffix),
          SolutionsSuffix, <<"/">>}

\* s.endsWith(suffix)
EndsWith(s, suffix) ==
    /\ Len(s) >= Len(suffix)
    /\ SubSeq(s, Len(s) - Len(suffix) + 1, Len(s)) = suffix

\* the error texts of the responses with status 400
NoExamLoaded == <<"N", "o", " ", "e", "x", "a", "m", " ", "J", "S", "O", "N", " ", "l", "o", "a", "d", "e", "d">>
NoSolutionsLoaded == <<"N", "o", " ", "s", "o", "l", "u", "t", "i", "o", "n", "s", " ", "J", "S", "O", "N", " ", "l", "o", "a", "d", "e", "d">>

\* no respondWith: the request goes to the network
NoResponse == [status |-> 0, body |-> <<>>]
NoEvent == [kind |-> "none", data |-> NoData, path |-> <<>>, posted |-> "none",
            response |-> NoResponse]
NoText == [type |-> "none", chars |-> <<>>]

\* the script was evaluated and no event handled yet
WorkerStart(s) ==
    /\ script = s
    /\ currentExamText = JsNull
    /\ currentSolutionsText = JsNull
    /\ event = NoEvent
    /\ lastAcked = NoText
    /\ onlyExam = TRUE

\* the message types that the running script has a branch for
Handles(type) ==
    \/ type = "setExamData"
    \/ script = Jsx /\ type \in {"setSolutionsData", "setData"}

\* the branch of the message assigns currentExamText, currentSolutionsText
SetsExam(data) ==
    \/ data.type = "setExamData"
    \/ data.type = "setData" /\ data.target # "solutions"
SetsSolutions(data) ==
    \/ data.type = "setSolutionsData"
    \/ data.type = "setData" /\ data.target # "exam"

\* try { JSON.parse(text); current = text; } catch (e) { }
Stored(data, sets, old) ==
    IF Handles(data.type) /\ sets /\ JSONParses(data.text) THEN data.text ELSE old

\* event.ports[0] && event.ports[0].postMessage(...)
Posted(data) ==
    IF ~Handles(data.type) \/ ~data.port THEN "none"
    ELSE IF JSONParses(data.text) THEN "ok: true"
    ELSE "ok: false"

\* the listener of 'message'
OnMessage ==
    \E data \in Messages :
        /\ currentExamText' = Stored(data, SetsExam(data), currentExamText)
        /\ currentSolutionsText' = Stored(data, SetsSolutions(data), currentSolutionsText)
        /\ event' = [kind |-> "message", data |-> data, path |-> <<>>,
                     posted |-> Posted(data), response |-> NoResponse]
        /\ lastAcked' = IF data.type = "setExamData" /\ Posted(data) = "ok: true"
                        THEN data.text ELSE lastAcked
        /\ onlyExam' = (onlyExam /\ data.type = "setExamData")
        /\ UNCHANGED <<script, pageVars>>

\* new Response(current, ...) when a text is kept, the error with status 400
\* when none is
Answer(current, missing) ==
    IF Truthy(current) THEN [status |-> 200, body |-> current.chars]
    ELSE [status |-> 400, body |-> missing]

\* what the listener of 'fetch' responds with
Respond(path) ==
    IF EndsWith(path, ExamSuffix) THEN Answer(currentExamText, NoExamLoaded)
    ELSE IF script = Jsx /\ EndsWith(path, SolutionsSuffix)
         THEN Answer(currentSolutionsText, NoSolutionsLoaded)
    ELSE NoResponse

\* the listener of 'fetch'
OnFetch ==
    \E path \in Paths :
        /\ event' = [kind |-> "fetch", data |-> NoData, path |-> path,
                     posted |-> "none", response |-> Respond(path)]
        /\ UNCHANGED <<script, currentExamText, currentSolutionsText, lastAcked,
                       onlyExam, pageVars>>

-----------------------------------------------------------------------------
(* App: state and handlers                                                 *)

\* the '+' button is not pressed beyond this variant index
MaxSeedIndex == 1

\* images are not added beyond this number in the whole bank
MaxImages == 1

\* what the user picks: the position of a width slider, the file to add
LayoutInputs == {[widthPct |-> 20]}
Files        == {"a.png"}

\* what JSON.parse makes of the editor's text: an array of problems, another
\* value, or a SyntaxError
EditorInputs ==
    {[tag |-> "array", v |-> b] : b \in Banks \cup {bank}}
        \cup {[tag |-> "other"], [tag |-> "invalid"]}

NoCall == [fn |-> "none"]

\* the render's outcome: view is what ExamView computes in it
Shown(bk, view, ie) ==
    /\ crashed' = RenderThrows(bk, view, ie)
    /\ preview' = IF crashed' THEN [tag |-> "unmounted"] ELSE view

\* the state after a handler set the App's state and React rendered it again;
\* the render of an unchanged state shows what is shown already
Rendered(bk, ed, ie, si, show, lm) ==
    IF <<bk, ed, ie, si, show, lm>>
         = <<bank, editing, imageEditorFor, seedIndex, showSolutions, layoutMode>>
    THEN UNCHANGED vars
    ELSE
    /\ bank' = bk
    /\ editing' = ed
    /\ imageEditorFor' = ie
    /\ seedIndex' = si
    /\ showSolutions' = show
    /\ layoutMode' = lm
    /\ Shown(bk, ExamView(bk, si, show), ie)
    /\ UNCHANGED <<exported, rand, call, prevCall, swVars>>

\* Editor and ImageEditor cover the page (fixed inset-0): while one is open the
\* clicks reach its own controls only
NoDialog == ~editing /\ imageEditorFor = NoId

\* the page after its first render
PageInit ==
    /\ rand = NoRand
    /\ call = NoCall
    /\ prevCall = NoCall
    /\ bank = DEMO_BANK
    /\ editing = FALSE
    /\ imageEditorFor = NoId
    /\ seedIndex = 0
    /\ showSolutions = FALSE
    /\ layoutMode = FALSE
    /\ crashed = RenderThrows(DEMO_BANK, ExamView(DEMO_BANK, 0, FALSE), NoId)
    /\ preview = ExamView(DEMO_BANK, 0, FALSE)
    /\ exported = NoExport

Init == PageInit /\ WorkerStart(SwJs)

\* the - button without Math.max(0, ...)
SeedMinusUnclamped ==
    /\ ~crashed
    /\ NoDialog
    /\ Rendered(bank, editing, imageEditorFor, seedIndex - 1, showSolutions, layoutMode)

\* setSeedIndex((s) => Math.max(0, s - 1))
SeedMinus ==
    /\ ~crashed
    /\ NoDialog
    /\ Rendered(bank, editing, imageEditorFor,
                IF seedIndex - 1 > 0 THEN seedIndex - 1 ELSE 0, showSolutions, layoutMode)

\* setSeedIndex((s) => s + 1)
SeedPlus ==
    /\ ~crashed
    /\ NoDialog
    /\ seedIndex < MaxSeedIndex
    /\ Rendered(bank, editing, imageEditorFor, seedIndex + 1, showSolutions, layoutMode)

\* setEditing(true): the toolbar's button and every card's Edit button
OpenEditor ==
    /\ ~crashed
    /\ NoDialog
    /\ Rendered(bank, TRUE, imageEditorFor, seedIndex, showSolutions, layoutMode)

\* Editor, Apply: setModel(JSON.parse(local)); onClose(), or the alert
EditorApply ==
    /\ ~crashed
    /\ editing
    /\ \E m \in EditorInputs :
          IF m.tag = "invalid"
          THEN UNCHANGED vars
          ELSE Rendered(IF m.tag = "array" THEN m.v ELSE bank, FALSE, imageEditorFor,
                        seedIndex, showSolutions, layoutMode)

\* Editor, Cancel
EditorCancel ==
    /\ ~crashed
    /\ editing
    /\ Rendered(bank, FALSE, imageEditorFor, seedIndex, showSolutions, layoutMode)

\* setLayoutMode(v => !v)
ToggleLayout ==
    /\ ~crashed
    /\ NoDialog
    /\ Rendered(bank, editing, imageEditorFor, seedIndex, showSolutions, ~layoutMode)

\* setShowSolutions(v => !v)
ToggleSolutions ==
    /\ ~crashed
    /\ NoDialog
    /\ Rendered(bank, editing, imageEditorFor, seedIndex, ~showSolutions, layoutMode)

\* the document r that exportNow built is downloaded, unless building it threw
Downloaded(r) ==
    IF r.tag = "ok"
    THEN [tag |-> "file", core |-> Core(bank), seedIndex |-> seedIndex,
          showSolutions |-> showSolutions, items |-> r.items]
    ELSE exported

\* the Export HTML button
ExportNow ==
    /\ ~crashed
    /\ NoDialog
    /\ exported' = Downloaded(exportNow(bank, seedIndex, showSolutions))
    /\ UNCHANGED <<bank, editing, imageEditorFor, seedIndex, showSolutions, layoutMode,
                   crashed, preview, rand, call, prevCall, swVars>>

\* a card's Images button: setImageEditorFor(p.id)
OpenImages ==
    /\ ~crashed
    /\ NoDialog
    /\ \E i \in 1..Len(bank) :
          Rendered(bank, editing, bank[i].id, seedIndex, showSolutions, layoutMode)

\* ImageEditor, Close
CloseImages ==
    /\ ~crashed
    /\ imageEditorFor # NoId
    /\ Rendered(bank, editing, NoId, seedIndex, showSolutions, layoutMode)

\* setBank(prev => prev.map(p => p.id === id ? { ...p, images: imgs } : p))
SetImages(id, imgs) ==
    Rendered([i \in 1..Len(bank) |->
                 IF bank[i].id = id THEN [bank[i] EXCEPT !.images = imgs] ELSE bank[i]],
             editing, imageEditorFor, seedIndex, showSolutions, layoutMode)

\* bank.find(p => p.id === imageEditorFor): the index of the problem the image
\* editor shows
EditorProblem == CHOOSE i \in 1..Len(bank) :
                    bank[i].id = imageEditorFor /\ \A j \in 1..(i - 1) : bank[j].id # imageEditorFor

\* the problems whose image controls can be clicked: the image editor's, and in
\* layout mode every problem of the preview
ControlsOf(inPreview) ==
    {i \in 1..Len(bank) : \/ imageEditorFor # NoId /\ i = EditorProblem
                          \/ inPreview /\ layoutMode /\ NoDialog}

RECURSIVE CountImages(_, _)
\* the number of images of the first i problems
CountImages(bk, i) == IF i = 0 THEN 0 ELSE Len(bk[i].images) + CountImages(bk, i - 1)

NumImages == CountImages(bank, Len(bank))

\* [next[a], next[b]] = [next[b], next[a]]
Swap(imgs, a, b) ==
    [k \in 1..Len(imgs) |-> IF k = a THEN imgs[b] ELSE IF k = b THEN imgs[a] ELSE imgs[k]]

\* ImageEditor, Add image(s), with one file chosen
ImgAdd ==
    /\ ~crashed
    /\ imageEditorFor # NoId
    /\ NumImages < MaxImages
    /\ \E f \in Files :
          SetImages(imageEditorFor,
                    Append(bank[EditorProblem].images,
                           [src |-> f, alt |-> f, widthPct |-> 60, align |-> "center"]))

\* the up button of image k (1-based)
ImgUp ==
    /\ ~crashed
    /\ \E i \in ControlsOf(TRUE) : \E k \in 1..Len(bank[i].images) :
          SetImages(bank[i].id,
                    IF k > 1 THEN Swap(bank[i].images, k - 1, k) ELSE bank[i].images)

\* the down button of image k
ImgDown ==
    /\ ~crashed
    /\ \E i \in ControlsOf(TRUE) : \E k \in 1..Len(bank[i].images) :
          SetImages(bank[i].id,
                    IF k < Len(bank[i].images) THEN Swap(bank[i].images, k + 1, k)
                    ELSE bank[i].images)

\* ImageEditor, Remove: next.splice(i, 1)
ImgRemove ==
    /\ ~crashed
    /\ \E i \in ControlsOf(FALSE) : \E k \in 1..Len(bank[i].images) :
          SetImages(bank[i].id,
                    SubSeq(bank[i].images, 1, k - 1)
                        \o SubSeq(bank[i].images, k + 1, Len(bank[i].images)))

\* { ...img, widthPct: Number(e.target.value) }
Patch(img, patch) ==
    [f \in DOMAIN img |-> IF f \in DOMAIN patch THEN patch[f] ELSE img[f]]

\* the width slider of image k, in the preview's layout controls and in the
\* image editor
ImgLayout ==
    /\ ~crashed
    /\ \E i \in ControlsOf(TRUE) : \E k \in 1..Len(bank[i].images) : \E c \in LayoutInputs :
          SetImages(bank[i].id, [bank[i].images EXCEPT ![k] = Patch(@, c)])

Next ==
    \/ SeedMinus \/ SeedPlus
    \/ OpenEditor \/ EditorApply \/ EditorCancel
    \/ ToggleLayout \/ ToggleSolutions \/ ExportNow
    \/ OpenImages \/ CloseImages
    \/ ImgAdd \/ ImgUp \/ ImgDown \/ ImgRemove \/ ImgLayout

Spec == Init /\ [][Next]_vars

-----------------------------------------------------------------------------
(* the helpers called on their own, as runSelfTests and the components call *)
(* them: call holds the latest call with its arguments and what it gave,    *)
(* prevCall the latest call of generateBindings made before it, rand the    *)
(* state in which the call left the generator it made (NoRand: none made)   *)

\* the largest max, and the largest step, that a call of pickParam is given
MaxBound == 3
MaxStep == 2

\* the seeds of the source: generateBindings(p, 42), idx + 999
Seeds == {42, 999}

Mins == {-1, 1}

\* what one call rand() gives and leaves: of a mulberry32 closure just made, and
\* of a function that returns 0, or the largest number below 1 that mulberry32
\* can return
Draws ==
    {randCall(mulberry32(seed)) : seed \in Seeds}
        \cup {[a |-> NoRand, w |-> w] : w \in {<<0, 0>>, <<H - 1, H - 1>>}}

\* (name, value) pairs as bindings
Bind1(n1, v1) == n1 :> Num(v1)
Bind2(n1, v1, n2, v2) == n1 :> Num(v1) @@ n2 :> Num(v2)
VR(v, r) == Bind2(<<"V">>, v, <<"R">>, r)

\* the problems generateBindings is called with
Problems == {Ohm1, Sel1, Dup1, SwapAB, SwapBA}

\* the (problem, bindings) pairs chooseCorrectIndex is called with
ChooseInputs ==
    {[problem |-> Ohm1, bindings |-> b] : b \in {VR(10, 10), VR(16, 10), VR(6, 12)}}
        \cup {[problem |-> Dup1, bindings |-> b] : b \in {VR(1, 2), VR(4, 2), VR(1, 4)}}
        \cup {[problem |-> DivZero1, bindings |-> b] : b \in {VR(1, 0), VR(1, 4), VR(0, 0)}}
        \cup {[problem |-> Str1, bindings |-> b] : b \in {VR(4, 2), VR(1, 2), VR(1, 3)}}
        \cup {[problem |-> Sel1, bindings |-> Bind1(<<"n">>, n)] : n \in {1, 2, 4}}
        \cup {[problem |-> CapRC1, bindings |-> Bind2(<<"R">>, 5, <<"C">>, 2)],
              [problem |-> RefErr1, bindings |-> Bind1(<<"V">>, 1)],
              [problem |-> SynErr1, bindings |-> Bind1(<<"V">>, 1)]}

\* the keys of out after the assignments out[params[j].name] = ... for j <= i, in
\* the order in which an object keeps them
AddKey(keys, name) ==
    IF \E j \in 1..Len(keys) : keys[j] = name THEN keys ELSE Append(keys, name)

RECURSIVE ObjectKeys(_, _)
ObjectKeys(params, i) ==
    IF i = 0 THEN <<>> ELSE AddKey(ObjectKeys(params, i - 1), params[i].name)

\* JSON.stringify of a number: null when it is not finite
JsonNumber(x) == IF IsFinite(x) THEN NumStr(x) ELSE <<"n", "u", "l", "l">>

\* JSON.stringify(out): the members in key order
JSONStringify(keys, out) == [j \in 1..Len(keys) |-> <<keys[j], JsonNumber(out[keys[j]])>>]

\* what a call leaves besides its record: a the state of the generator it made
Left(a) ==
    /\ prevCall' = IF call.fn = "generateBindings" THEN call ELSE prevCall
    /\ rand' = a
    /\ UNCHANGED <<bank, editing, imageEditorFor, seedIndex, showSolutions, layoutMode,
                   crashed, preview, exported, swVars>>

\* pickParam(rand, min, max, step) returned r.v, the call of rand gave the word w
PickRecord(w, min, max, step, r) ==
    [fn |-> "pickParam", w |-> w, min |-> min, max |-> max, step |-> step,
     tag |-> "return", v |-> r.v]

\* pickParam(rand, min, max, step)
CallPickParam ==
    \E c \in Draws, min \in Mins, max \in (-1)..MaxBound, step \in (-1)..MaxStep :
        /\ call' = PickRecord(c.w, min, max, step, PickWith(c, min, max, step))
        /\ Left(c.a)

\* generateBindings(problem, seed) returned r.out
BindingsRecord(problem, seed, r) ==
    [fn |-> "generateBindings", problem |-> problem, seed |-> seed, out |-> r.out,
     json |-> JSONStringify(ObjectKeys(problem.params, Len(problem.params)), r.out)]

\* const s1 = generateBindings(p, 42)
CallGenerateBindings ==
    \E problem \in Problems, seed \in Seeds :
        /\ call' = BindingsRecord(problem, seed, generateBindings(problem, seed))
        /\ Left(generateBindings(problem, seed).a)

\* const { index: idx } = chooseCorrectIndex(ohm, { V: 10, R: 10 })
CallChooseCorrectIndex ==
    \E x \in ChooseInputs :
        /\ call' = [fn |-> "chooseCorrectIndex", problem |-> x.problem,
                    bindings |-> x.bindings,
                    result |-> chooseCorrectIndex(x.problem, x.bindings)]
        /\ Left(NoRand)

\* the stems renderTemplate is called with: the one of the self-test, one with
\* white space around a name and a name that is not bound, one that names a
\* member of Object.prototype, two without a placeholder, and one around whose
\* placeholder braces are left
SelfTestStem == <<"V", "=", "{", "{", "V", "}", "}", ",", " ", "R", "=", "{", "{", "R", "}", "}">>
SpacedStem == <<"{", "{", " ", "V", " ", "}", "}", "/", "{", "{", "X", "}", "}">>
InheritedStem == <<"{", "{", "c", "o", "n", "s", "t", "r", "u", "c", "t", "o", "r", "}", "}", ":", "{", "{", "V", "}", "}">>
PlainStem == <<"V", "=", "1", "0", ",", " ", "R", "=", "5">>
BracesStem == <<"{", "V", "}", " ", "{", "{", "}", "}", " ", "{", "{", " ", "a", " ", "b", " ", "}", "}">>
NestedStem == <<"{", "{", "{", "{", "V", "}", "}", "}", "}">>
Templates == {SelfTestStem, SpacedStem, InheritedStem, PlainStem, BracesStem, NestedStem}

\* the bindings renderTemplate is called with: { V: 10, R: 5 }, { V: 10 }, {}
TemplateBindings == {VR(10, 5), Bind1(<<"V">>, 10), EmptyObj}

\* renderTemplate(stem, bindings) returned out; again is what renderTemplate
\* returns for out
RenderRecord(stem, bindings, out) ==
    [fn |-> "renderTemplate", stem |-> stem, bindings |-> bindings, out |-> out,
     again |-> renderTemplate(out, bindings)]

\* const msg = renderTemplate("V={{V}}, R={{R}}", { V: 10, R: 5 })
CallRenderTemplate ==
    \E stem \in Templates, bindings \in TemplateBindings :
        /\ call' = RenderRecord(stem, bindings, renderTemplate(stem, bindings))
        /\ Left(NoRand)

\* a closure of mulberry32 is not called more often than this
MaxCalls == 3

\* the seeds mulberry32 is called with: those of the source (42, 12345 +
\* seedIndex, idx + 999), a negative one and the largest 31-bit one
RandSeeds == {42, 999, 12345, -1, 2147483647}

\* the n-th call of the closure mulberry32(seed), made in the state a
RandRecord(seed, n, a) ==
    [fn |-> "rand", seed |-> seed, n |-> n, before |-> a,
     after |-> randCall(a).a, w |-> randCall(a).w]

\* const rand = mulberry32(seed) and its first call
FirstRand ==
    \E seed \in RandSeeds :
        /\ call' = RandRecord(seed, 1, mulberry32(seed))
        /\ Left(randCall(mulberry32(seed)).a)

\* another call of the closure called last
NextRand ==
    /\ call.fn = "rand"
    /\ call.n < MaxCalls
    /\ call' = RandRecord(call.seed, call.n + 1, rand)
    /\ Left(randCall(rand).a)

FnNext ==
    \/ CallPickParam
    \/ CallGenerateBindings
    \/ CallChooseCorrectIndex
    \/ CallRenderTemplate
    \/ FirstRand
    \/ NextRand

FnSpec == Init /\ [][FnNext]_vars

-----------------------------------------------------------------------------
(* SwSpec: the events of a service worker, of either script                *)

SwInit == PageInit /\ \E s \in Scripts : WorkerStart(s)

SwNext == OnMessage \/ OnFetch

SwSpec == SwInit /\ [][SwNext]_vars

-----------------------------------------------------------------------------
(* the claims                                                              *)

\* items x and y hold the same bindings, rendered stem and correct index for
\* every problem
SameVariant(x, y) ==
    /\ Len(x) = Len(y)
    /\ \A i \in 1..Len(x) :
          /\ x[i].id = y[i].id
          /\ x[i].b = y[i].b
          /\ x[i].stem = y[i].stem
          /\ x[i].index = y[i].index

\* the downloaded file was built from the problems and the seedIndex of the
\* preview now on screen
ExportOfPreview ==
    /\ exported.tag = "file"
    /\ preview.tag = "ok"
    /\ exported.core = Core(bank)
    /\ exported.seedIndex = seedIndex

\* the file and the preview agree, with or without solutions in either
ExportAgrees == ExportOfPreview => SameVariant(exported.items, preview.items)

\* a step that keeps the problems and seedIndex keeps what the preview computed
PreviewStable ==
    (/\ preview.tag = "ok" /\ preview'.tag = "ok"
     /\ Core(bank') = Core(bank) /\ seedIndex' = seedIndex)
        => SameVariant(preview.items, preview'.items)

\* C1: for a bank and a seedIndex, the bindings, the rendered stem and the correct
\* index of every problem are the same in the exam and in its solution key, in the
\* preview and in the exported file, whatever toggling of solutions or layout
\* mode and whatever image edits happen in between.
C1_ExamAndKeyAgree == []ExportAgrees /\ [][PreviewStable]_vars

\* an exam was exported, the preview now shows the key of the same bank and
\* variant in layout mode with an image added since, and an option is marked
C1_Witness ==
    /\ ExportOfPreview
    /\ ~exported.showSolutions /\ showSolutions
    /\ layoutMode /\ NumImages > 0 /\ seedIndex > 0
    /\ \E i \in 1..Len(preview.items) :
          preview.items[i].index >= 0 /\ preview.items[i].marked # {}

AnswerFails(p) == chooseCorrectIndex(p, generateBindings(p, 0).out).tag = "throw"

\* C3 (as the specification states it): when the answer expression of one problem
\* of the bank fails to evaluate, the variant is still generated: the preview
\* shows the result of every other problem.
C3_OthersStillShown ==
    (\E i \in 1..Len(bank) : AnswerFails(bank[i]))
        => /\ preview.tag = "ok"
           /\ \A j \in 1..Len(bank) :
                 ~AnswerFails(bank[j])
                    => \E k \in 1..Len(preview.items) : preview.items[k].id = bank[j].id

\* C4: for integers max >= min and step > 0 and any draw, pickParam returns an
\* integer v with min <= v <= max and (v - min) % step = 0, and min itself when
\* min = max.
C4_OnGrid ==
    (call.fn = "pickParam" /\ call.max >= call.min /\ call.step > 0)
        => /\ call.tag = "return"
           /\ call.v.d = 1
           /\ call.min <= call.v.n /\ call.v.n <= call.max
           /\ (call.v.n - call.min) % call.step = 0
           /\ (call.min = call.max => call.v.n = call.min)

\* the largest draw picked the last value of a grid that ends below max
C4_Witness ==
    /\ call.fn = "pickParam" /\ call.w = <<H - 1, H - 1>>
    /\ call.min = -1 /\ call.max = 2 /\ call.step = 2
    /\ call.v = Num(1)

\* C5 (as the specification states it): with min > max or step <= 0 pickParam
\* fails with an error and returns no value.
C5_FailsFast ==
    (call.fn = "pickParam" /\ (call.min > call.max \/ call.step <= 0))
        => call.tag = "throw"

RECURSIVE NthState(_, _)
\* the state of the generator mulberry32(seed) after i calls
NthState(seed, i) == IF i = 0 THEN mulberry32(seed) ELSE Advance(NthState(seed, i - 1))

\* the value that the i-th draw of the stream seeded with seed selects for the
\* parameter spec p
Selected(seed, i, p) == PickValue(Mix(NthState(seed, i)), p.min, p.max, StepOf(p))

\* the position on its grid of the value v picked for the spec p
GridIndex(v, p) == (v.n - p.min) \div StepOf(p)

\* the call c bound every declared parameter, and no other name, to the value
\* that the draw of its position selects, and made no further draw
DrawnInOrder(c, a) ==
    /\ a = NthState(c.seed, Len(c.problem.params))
    /\ DOMAIN c.out = {c.problem.params[i].name : i \in 1..Len(c.problem.params)}
    /\ \A i \in 1..Len(c.problem.params) :
          c.out[c.problem.params[i].name] = Selected(c.seed, i, c.problem.params[i])

\* c and d were called with one seed and the same two specs p and q (grids of
\* equal length), c with p before q and d with q before p: each name has in d the
\* grid position that the other name has in c
Swapped(c, d, p, q) ==
    (/\ c.seed = d.seed
     /\ c.problem.params = <<p, q>> /\ d.problem.params = <<q, p>>
     /\ NSteps(p.min, p.max, StepOf(p)) = NSteps(q.min, q.max, StepOf(q)))
        => /\ GridIndex(d.out[p.name], p) = GridIndex(c.out[q.name], q)
           /\ GridIndex(d.out[q.name], q) = GridIndex(c.out[p.name], p)

\* C6: generateBindings on a problem with n parameter specs makes exactly n draws,
\* one per parameter in declared order: the i-th draw of the stream seeded with
\* the seed selects the value of the i-th declared parameter, so that with two
\* specs swapped each name receives the value selected by the other's draw.
C6_OneDrawPerParameter ==
    /\ call.fn = "generateBindings" => DrawnInOrder(call, rand)
    /\ (call.fn = "generateBindings" /\ prevCall.fn = "generateBindings"
        /\ Len(call.problem.params) = 2)
          => Swapped(prevCall, call, call.problem.params[2], call.problem.params[1])

\* the same seed was given with two specs in one order and then in the other,
\* and both names changed their values
C6_Witness ==
    /\ call.fn = "generateBindings" /\ prevCall.fn = "generateBindings"
    /\ call.seed = prevCall.seed
    /\ prevCall.problem = SwapAB /\ call.problem = SwapBA
    /\ call.out[<<"a">>] # prevCall.out[<<"a">>]
    /\ call.out[<<"b">>] # prevCall.out[<<"b">>]

\* what the answer expression of the call c evaluates to
AnswerOf(c) == EvalAnswer(c.problem.answerExpr, c.bindings)

\* the match mode of p is numeric
NumericMode(p) == "selectRule" \in DOMAIN p /\ p.selectRule.match = "numeric"

\* the declared precision of p, 2 when none is declared
Precision(p) == IF "rounding" \in DOMAIN p.selectRule THEN p.selectRule.rounding ELSE 2

\* option i (1-based) of the call c has a numeric token, the first run of its
\* text that matches -?\d+(\.\d+)?, whose value equals the answer, both rounded
\* to the declared precision
NumericMatch(c, i) ==
    /\ \E k \in 1..Len(c.problem.options[i]) : TokenAt(c.problem.options[i], k)
    /\ roundTo(numericFromOption(c.problem.options[i]), Precision(c.problem))
          = roundTo(ToNumber(AnswerOf(c)), Precision(c.problem))

\* C7: in numeric mode chooseCorrectIndex returns the smallest index whose option
\* has a numeric token that equals the answer, both rounded to the declared
\* precision (2 by default); the options are scanned in list order, those without
\* a numeric token skipped.  Options 0.2 A, 0.4 A, 0.5 A, 1.0 A, 2.0 A with V / R,
\* rounding 1 and V = 10, R = 10 give index 3.
C7_FirstNumericMatch ==
    (call.fn = "chooseCorrectIndex" /\ NumericMode(call.problem)
     /\ AnswerOf(call).tag # "throw")
        => /\ call.result.tag = "return"
           /\ \A i \in 1..Len(call.problem.options) :
                 (NumericMatch(call, i) /\ \A j \in 1..(i - 1) : ~NumericMatch(call, j))
                    => call.result.index = i - 1
           /\ (call.problem = Ohm1 /\ call.bindings = VR(10, 10)) => call.result.index = 3

\* of unsorted options the third and the fourth match, behind one without a
\* numeric token and one that does not match, and the third is returned
C7_Witness ==
    /\ call.fn = "chooseCorrectIndex" /\ call.problem = Dup1
    /\ NumericMatch(call, 3) /\ NumericMatch(call, 4)
    /\ numericFromOption(call.problem.options[1]) = NaN
    /\ call.result.index = 2

\* C8: in numeric mode, when the answer is a finite number and no option's
\* rounded value equals the rounded answer, chooseCorrectIndex returns index -1 as
\* a normal result and throws nothing.
C8_NoMatchIsMinusOne ==
    (/\ call.fn = "chooseCorrectIndex" /\ NumericMode(call.problem)
     /\ AnswerOf(call).tag = "num" /\ IsFinite(AnswerOf(call).v)
     /\ \A i \in 1..Len(call.problem.options) : ~NumericMatch(call, i))
        => call.result.tag = "return" /\ call.result.index = -1

\* 16 / 10 rounds to 1.6, which none of the five options equals
C8_Witness ==
    /\ call.fn = "chooseCorrectIndex" /\ call.problem = Ohm1
    /\ call.bindings = VR(16, 10)
    /\ call.result.tag = "return" /\ call.result.index = -1
    /\ call.result.numericAnswer = Rat(8, 5)

\* C9 (as the specification states it): an answer expression that evaluates,
\* without throwing, to a value that is not finite is reported as a failure:
\* chooseCorrectIndex returns no ordinary result for it.
C9_NonFiniteFails ==
    (/\ call.fn = "chooseCorrectIndex"
     /\ AnswerOf(call).tag = "num" /\ ~IsFinite(AnswerOf(call).v))
        => call.result.tag = "throw"

\* option i (1-based) of the call c, trimmed, is the trimmed text of the answer
TextMatch(c, i) == Trim(c.problem.options[i]) = Trim(ToStr(AnswerOf(c)))

\* C10: when the match mode is not numeric, and when the problem has no selectRule
\* at all, chooseCorrectIndex returns the smallest index whose option, trimmed,
\* equals the trimmed text of the answer, and -1 when no option does.
C10_FirstTextMatch ==
    (call.fn = "chooseCorrectIndex" /\ ~NumericMode(call.problem)
     /\ AnswerOf(call).tag # "throw")
        => /\ call.result.tag = "return"
           /\ \A i \in 1..Len(call.problem.options) :
                 (TextMatch(call, i) /\ \A j \in 1..(i - 1) : ~TextMatch(call, j))
                    => call.result.index = i - 1
           /\ (\A i \in 1..Len(call.problem.options) : ~TextMatch(call, i))
                 => call.result.index = -1

\* a problem with a selectRule that is not numeric: the second and the third
\* option equal the answer 2 once trimmed, the second is returned
C10_Witness ==
    /\ call.fn = "chooseCorrectIndex" /\ call.problem = Str1
    /\ call.problem.options[2] # Trim(call.problem.options[2])
    /\ TextMatch(call, 2) /\ TextMatch(call, 3)
    /\ call.result.index = 1

\* the string form of bindings[name], the empty string when name is not bound
Bound(bindings, name) ==
    IF name \in DOMAIN bindings THEN NumStr(bindings[name]) ELSE <<>>

RECURSIVE Replaced(_, _, _)
\* the text of s from i on, read character by character: a placeholder is
\* replaced by what it names, every other character is copied
Replaced(s, i, bindings) ==
    IF i > Len(s) THEN <<>>
    ELSE IF PlaceholderAt(s, i).end > 0
         THEN Bound(bindings, PlaceholderAt(s, i).name)
                \o Replaced(s, PlaceholderAt(s, i).end + 1, bindings)
    ELSE <<s[i]>> \o Replaced(s, i + 1, bindings)

\* C11 (as the specification states it): renderTemplate replaces every {{name}},
\* white space around the name allowed, by the string form of bindings[name], and
\* by the empty string when name is not bound; the text outside placeholders is
\* copied unchanged.  "V={{V}}, R={{R}}" with V = 10, R = 5 gives "V=10, R=5".
C11_EveryPlaceholderReplaced ==
    call.fn = "renderTemplate"
        => /\ call.out = Replaced(call.stem, 1, call.bindings)
           /\ (call.stem = SelfTestStem /\ call.bindings = VR(10, 5))
                 => call.out = PlainStem

\* s holds no placeholder
NoToken(s) == \A i \in 1..Len(s) : PlaceholderAt(s, i).end = 0

\* C12: a template without a {{...}} token is returned unchanged, whatever the
\* bindings; so rendering again an output that holds no placeholder returns it.
C12_NoTokenUnchanged ==
    call.fn = "renderTemplate"
        => /\ NoToken(call.stem) => call.out = call.stem
           /\ NoToken(call.out) => call.again = call.out

\* a template with braces and no placeholder was returned as it is
C12_Witness ==
    /\ call.fn = "renderTemplate" /\ call.stem = BracesStem
    /\ \E i \in 1..Len(call.stem) : call.stem[i] = "{"
    /\ NoToken(call.stem)
    /\ call.out = call.stem /\ call.again = call.out

ServesLastAcked ==
    (event.kind = "fetch" /\ EndsWith(event.path, ExamSuffix) /\ onlyExam)
        => /\ lastAcked # NoText
                 => event.response = [status |-> 200, body |-> lastAcked.chars]
           /\ event.response.status = 400
                 => lastAcked = NoText /\ event.response.body = NoExamLoaded

\* a setExamData message answered { ok: false } leaves the stored text as it is
RejectedKeeps ==
    (/\ event'.kind = "message" /\ event'.data.type = "setExamData"
     /\ event'.posted = "ok: false")
        => currentExamText' = currentExamText

\* C14 (as the claim states it): after any sequence of setExamData messages and
\* fetches, a fetch of a path ending in /exam_data.json is answered with exactly
\* the text of the most recent setExamData message that was acknowledged
\* { ok: true }, and with the status-400 error only when no message has been
\* acknowledged so far; a message rejected with { ok: false } leaves the stored
\* text unchanged.
C14_ServesLastAcknowledged == []ServesLastAcked /\ [][RejectedKeeps]_vars

\* a step that changes seedIndex, which only the + and - buttons do, moves it by
\* one and leaves the bank, showSolutions and layoutMode as they are
SeedStep ==
    seedIndex' # seedIndex
        => /\ seedIndex' \in {seedIndex - 1, seedIndex + 1}
           /\ UNCHANGED <<bank, showSolutions, layoutMode>>

\* C15: seedIndex starts at 0 and is a non-negative integer in every reachable
\* state, so that - at 0 leaves it at 0; a click on + or - changes neither the
\* bank nor showSolutions nor layoutMode.
C15_SeedIndexNonNegative ==
    /\ seedIndex = 0
    /\ [](seedIndex \in Nat)
    /\ [][SeedStep]_vars

\* + was clicked on a bank applied in the editor, with solutions shown and the
\* layout mode on
C15_Witness ==
    /\ seedIndex > 0
    /\ bank # DEMO_BANK /\ showSolutions /\ layoutMode
    /\ ~crashed

=============================================================================
